---- MODULE Spec2Model ----
(***************************************************************************)
(* The capture session of src/components/VideoGenerator.tsx: the React     *)
(* state and refs of the VideoGenerator component, the two handlers        *)
(* startRecording and stopRecording, the render tick, and the callbacks    *)
(* the component installs on its MediaRecorder.  The platform pieces the   *)
(* handlers call (the animation-frame scheduler, the clock, the            *)
(* MediaRecorder state machine of the W3C MediaStream Recording API) are   *)
(* modelled as far as the handlers observe them.  The renderer drawFrame   *)
(* and the colour helpers hexToRgb, rgbToHex and toHex are operators.      *)
(*                                                                         *)
(* A handler runs to completion as one step: the browser is single         *)
(* threaded and React applies the state updates of one callback together,  *)
(* the last write to each state variable winning.                          *)
(***************************************************************************)
EXTENDS Integers, Sequences, FiniteSets, TLC

----------------------------------------------------------------------------
\* Bounds of the model.

\* MediaRecorder objects constructed in one run (sessions are numbered
\* 1..MaxSessions in the order of construction).
MaxSessions == 2
\* Timeslice fragments one encoder emits before its final fragment.
MaxFrags == 1
\* Display refreshes in one run, and the milliseconds between two of them.
MaxFrames == 2
FrameMs == 3000
\* Elapsed times sampled for the renderer: 0, ElapsedStepMs, ...,
\* MaxSteps * ElapsedStepMs.
MaxSteps == 28
ElapsedStepMs == 250

----------------------------------------------------------------------------
\* Program constants.

\* DEFAULTS.durationSeconds
DefaultDurationSeconds == 6
\* settings.durationSeconds * 1000
MsPerSecond == 1000

\* DEFAULTS.width
DefaultWidth == 720

\* DEFAULTS.text
DefaultText ==
    "Hello, world!\nThis video was generated entirely in your browser."

\* DEFAULTS.  Of the settings, the model carries the duration, the animation
\* variant, the text and the width; height, fps, font size and the two
\* colours are read at the same places as the width and the text.
Defaults ==
    [durationSeconds |-> DefaultDurationSeconds,
     animation |-> "fade",
     text |-> DefaultText,
     width |-> DefaultWidth]

\* Values the duration input is edited to.
Durations == {1, DefaultDurationSeconds}
\* Values the width input is edited to.
Widths == {256, DefaultWidth}
\* type AnimationType
Animations == {"fade", "slide", "zoom", "typewriter"}
\* Values of the text area: the empty text and a text of two lines.
Texts == {"", "Hi\nthere"}

\* The characters of a string, for the strings that are texts here.
Chars(str) ==
    CASE str = "" -> << >>
      [] str = "Hi\nthere" -> <<"H", "i", "\n", "t", "h", "e", "r", "e">>
      [] str = DefaultText ->
         <<
           "H", "e", "l", "l", "o", ",", " ", "w", "o", "r",
           "l", "d", "!", "\n", "T", "h", "i", "s", " ", "v",
           "i", "d", "e", "o", " ", "w", "a", "s", " ", "g",
           "e", "n", "e", "r", "a", "t", "e", "d", " ", "e",
           "n", "t", "i", "r", "e", "l", "y", " ", "i", "n",
           " ", "y", "o", "u", "r", " ", "b", "r", "o", "w",
           "s", "e", "r", "." >>

\* The values of Settings the renderer is applied to.
ParamSets ==
    [durationSeconds : Durations, animation : Animations,
     text : Texts, width : Widths]

\* The elapsed times drawFrame is called with outside a session.
ElapsedSamples == {k * ElapsedStepMs : k \in 0..MaxSteps}

\* drawFrame: const waveCount = 3
WaveCount == 3
\* drawFrame: const barMargin = 24
BarMargin == 24
\* drawFrame, case "typewriter": progress * (totalChars + 6)
TypewriterLead == 6

Sessions == 1..MaxSessions
\* Fragment sizes in bytes: an empty fragment and a non-empty one.
FragSizes == {0, 1}

\* What a call of startRecording meets: every platform call succeeds, or
\* the named call throws.
Outcomes == {"ok", "captureStream", "isTypeSupported", "constructor", "start"}

\* useState<string | null>(null) of error: null, or the message of the
\* exception, which is named after the call that threw it.
NoError == "null"

\* useState<string | null>(null) of blobUrl.  An object URL stands for the
\* Blob it was created from: the session whose onstop built it and the
\* parts it was built of.
NoBlob == [owner |-> 0, parts |-> << >>]

VARIABLES
    settings,       \* useState<Settings>
    recording,      \* useState(false)
    blobUrl,        \* useState<string | null>(null)
    error,          \* useState<string | null>(null)
    progressMs,     \* useState(0)
    recorderRef,    \* useRef<MediaRecorder | null>: a session, 0 for null
    chunksRef,      \* useRef<BlobPart[]>: the current array
    rafRef,         \* useRef<number | null>: a handle, NoHandle for null
    startTimeRef,   \* useRef<number>(0)
    now,            \* performance.now()
    rafQueue,       \* the scheduler's pending callbacks, by handle
    mr,             \* the MediaRecorder of each session: [phase, emitted]
    closure,        \* what the tick of each session closed over
    frame,          \* the last drawFrame call since the last session began
    canvas,         \* the canvas element: the size of its bitmap
    swatch          \* a colour string and what the colour helpers make of it

vars == <<settings, recording, blobUrl, error, progressMs, recorderRef,
          chunksRef, rafRef, startTimeRef, now, rafQueue, mr,
          closure, frame, canvas, swatch>>

----------------------------------------------------------------------------
\* The MediaRecorder as the handlers see it.

\* MediaRecorder.state: "recording" between start() and stop() (or an
\* error), "inactive" otherwise.
MrState(m) == IF m.phase = "recording" THEN "recording" ELSE "inactive"

\* The session number the next constructed MediaRecorder gets.
NewSess == 1 + Cardinality({s \in Sessions : mr[s].phase # "none"})

\* The phases in which a MediaRecorder delivers nothing any more.
Finished == {"inactive", "stopped", "aborted"}

\* emitted records the non-empty fragments an encoder delivered, for as long as the encoder
\* runs or the artifact built at its end is the one in blobUrl: the
\* records of the other finished encoders are dropped when blobUrl is
\* replaced.
Forget(recorders, keep) ==
    [s \in Sessions |->
        IF recorders[s].phase \in Finished /\ s # keep
        THEN [recorders[s] EXCEPT !.emitted = << >>]
        ELSE recorders[s]]

\* The fragment an encoder emits next.
Fragment(s, size) == [sess |-> s, seq |-> Len(mr[s].emitted) + 1, size |-> size]

\* The record of what an encoder delivered, after it delivered e.
Emit(log, e) == IF e.size > 0 THEN Append(log, e) ELSE log

\* mr.ondataavailable
OnDataAvailable(chunks, e) == IF e.size > 0 THEN Append(chunks, e) ELSE chunks

\* An onstop that builds the Blob and never calls setBlobUrl.
OnStopUrl_NotExposed(s, chunks) == NoBlob

\* mr.onstop: new Blob(chunksRef.current), URL.createObjectURL(blob)
OnStopUrl(s, chunks) == [owner |-> s, parts |-> chunks]

\* useRef<number | null>(null) of rafRef.
NoHandle == [sess |-> 0, at |-> 0]

\* requestAnimationFrame(tick) called by session s: the handle it returns.
\* A handle is only stored, tested for null and cancelled, so the number
\* is replaced by the pair that identifies the request: a session requests
\* at most one frame per display refresh.
RequestAnimationFrame(s) == [sess |-> s, at |-> now]

\* A stopRecording that clears rafRef and never cancels the request.
StopCancels_Nothing(queue, handle) == queue

\* cancelAnimationFrame(handle) as stopRecording calls it.
StopCancels(queue, handle) ==
    IF handle # NoHandle THEN queue \ {handle} ELSE queue

\* A stopRecording that calls mr.stop() whatever the recorder's state.
StopSignalsEncoder_AnyState(ref, recorders) == ref # 0

\* stopRecording: mr && mr.state !== 'inactive'
StopSignalsEncoder(ref, recorders) ==
    ref # 0 /\ MrState(recorders[ref]) # "inactive"

\* A tick that goes on while tMs <= totalMs.
TickSchedulesNext_Inclusive(tMs, totalMs) == tMs <= totalMs

\* tick: tMs < totalMs
TickSchedulesNext(tMs, totalMs) == tMs < totalMs

\* No tick of the current session has painted yet.
NoFrame == [sess |-> 0, tMs |-> 0]

----------------------------------------------------------------------------
\* The colour helpers.  A colour string is the sequence of its characters.

\* The digits Number.prototype.toString(16) writes, by value.
LowerDigits ==
    <<"0", "1", "2", "3", "4", "5", "6", "7", "8", "9",
      "a", "b", "c", "d", "e", "f">>
UpperDigits ==
    <<"0", "1", "2", "3", "4", "5", "6", "7", "8", "9",
      "A", "B", "C", "D", "E", "F">>

\* [a-f\d] under the i flag
IsHexDigit(c) == \E v \in 1..16 : c = LowerDigits[v] \/ c = UpperDigits[v]

\* The value parseInt(_, 16) gives a hexadecimal digit.
DigitValue(c) ==
    (CHOOSE v \in 1..16 : c = LowerDigits[v] \/ c = UpperDigits[v]) - 1

\* parseInt(m, 16) of a group of two hexadecimal digits
ParseInt16(m) == 16 * DigitValue(m[1]) + DigitValue(m[2])

\* /^#?([a-f\d]{2})([a-f\d]{2})([a-f\d]{2})$/i: the six digits matched, or
\* the empty sequence when the string does not match.
HexGroups(hex) ==
    LET body == IF hex # << >> /\ hex[1] = "#" THEN Tail(hex) ELSE hex
    IN IF Len(body) = 6 /\ \A i \in 1..6 : IsHexDigit(body[i])
       THEN body
       ELSE << >>

\* hexToRgb(hex)
HexToRgb(hex) ==
    LET m == HexGroups(hex)
    IN IF m = << >>
       THEN [r |-> 0, g |-> 0, b |-> 0]
       ELSE [r |-> ParseInt16(SubSeq(m, 1, 2)),
             g |-> ParseInt16(SubSeq(m, 3, 4)),
             b |-> ParseInt16(SubSeq(m, 5, 6))]

\* n.toString(16) of a non-negative integer
RECURSIVE ToString16(_)
ToString16(n) ==
    IF n < 16
    THEN <<LowerDigits[n + 1]>>
    ELSE ToString16(n \div 16) \o <<LowerDigits[(n % 16) + 1]>>

\* s.padStart(targetLength, fill) with a fill of one character
RECURSIVE PadStart(_, _, _)
PadStart(str, targetLength, fill) ==
    IF Len(str) >= targetLength
    THEN str
    ELSE PadStart(<<fill>> \o str, targetLength, fill)

\* A toHex that does not pad.
ToHex_Unpadded(n) == ToString16(n)

\* toHex(n)
ToHex(n) == PadStart(ToString16(n), 2, "0")

\* rgbToHex(r, g, b)
RgbToHex(r, g, b) == <<"#">> \o ToHex(r) \o ToHex(g) \o ToHex(b)

\* The characters the sampled colour strings are made of: digits, a
\* lower-case and an upper-case letter, and a character that is no digit.
SampleChars == {"0", "9", "c", "F", "g"}

\* The colour strings the helpers are applied to: six characters, with and
\* without the leading "#".
ColorSamples ==
    {prefix \o body : prefix \in {<< >>, <<"#">>},
                      body \in [1..6 -> SampleChars]}

\* No colour string has been converted.
NoSwatch == [hex |-> << >>]

----------------------------------------------------------------------------
\* The renderer.  A JavaScript number that drawFrame divides is a rational
\* here, the pair of a numerator and a positive denominator; the elapsed
\* time is a whole number of milliseconds.

Rat(n, d) == [num |-> n, den |-> d]
RatLeq(a, b) == a.num * b.den <= b.num * a.den
RatEq(a, b) == a.num * b.den = b.num * a.den
RatTimes(a, k) == Rat(a.num * k, a.den)
Zero == Rat(0, 1)
One == Rat(1, 1)

\* Math.max, Math.min, Math.floor
MathMax(a, b) == IF RatLeq(a, b) THEN b ELSE a
MathMin(a, b) == IF RatLeq(a, b) THEN a ELSE b
MathFloor(a) == a.num \div a.den

\* A clamp with no upper limit.
Clamp_NoUpper(n, min, max) == MathMax(min, n)

\* clamp(n, min, max)
Clamp(n, min, max) == MathMax(min, MathMin(max, n))

\* drawFrame: const progress = clamp(tMs / (settings.durationSeconds * 1000), 0, 1)
Progress(params, tMs) ==
    Clamp(Rat(tMs, params.durationSeconds * MsPerSecond), Zero, One)

\* text.split(/\r?\n/)
RECURSIVE SplitLines(_)
SplitLines(t) ==
    IF \A i \in 1..Len(t) : t[i] # "\n"
    THEN <<t>>
    ELSE LET i == CHOOSE k \in 1..Len(t) :
                      t[k] = "\n" /\ \A j \in 1..(k - 1) : t[j] # "\n"
             head == SubSeq(t, 1, i - 1)
             line == IF head # << >> /\ head[Len(head)] = "\r"
                     THEN SubSeq(head, 1, Len(head) - 1)
                     ELSE head
         IN <<line>> \o SplitLines(SubSeq(t, i + 1, Len(t)))

\* text.slice(0, end) for end >= 0
Slice(t, end) == SubSeq(t, 1, IF end < Len(t) THEN end ELSE Len(t))

\* A typewriter whose count runs to totalChars - 6.
CharsToShow_NoLead(progress, totalChars) ==
    MathFloor(RatTimes(progress, totalChars - TypewriterLead))

\* case "typewriter": const charsToShow = Math.floor(progress * (totalChars + 6))
CharsToShow(progress, totalChars) ==
    MathFloor(RatTimes(progress, totalChars + TypewriterLead))

\* case "typewriter": text.slice(0, Math.max(0, charsToShow))
Visible(text, progress) ==
    LET charsToShow == CharsToShow(progress, Len(text))
    IN Slice(text, IF charsToShow > 0 THEN charsToShow ELSE 0)

\* What one call of drawFrame paints, in order.  Each step is named after
\* what it paints, with the width it fills or the lines it writes; alpha,
\* offset and scale of the text block are not modelled.
DrawFrameOps(params, tMs) ==
    LET width == params.width
        text == Chars(params.text)
        progress == Progress(params, tMs)
        barWidth == width - BarMargin * 2
        filled == MathFloor(RatTimes(progress, barWidth))
        backdrop ==
            <<[op |-> "clearRect", arg |-> width],
              [op |-> "background", arg |-> width]>>
            \o [i \in 1..WaveCount |-> [op |-> "wave", arg |-> i - 1]]
    IN IF params.animation = "typewriter"
       THEN backdrop
            \o <<[op |-> "text", arg |-> SplitLines(Visible(text, progress))]>>
       ELSE backdrop
            \o <<[op |-> "text", arg |-> SplitLines(text)]>>
            \o <<[op |-> "track", arg |-> barWidth],
                 [op |-> "fill", arg |-> filled]>>

\* drawFrame(ctx, tMs) called by the tick of session s: drawFrame reads the
\* settings of the render it was defined in (params) and paints on the
\* canvas as it is (surface).
DrawFrame(s, params, surface, tMs) ==
    [sess |-> s, tMs |-> tMs, params |-> params, surface |-> surface]

\* What the call f of drawFrame computed as progress, and what it painted.
ProgressOf(f) == Progress(f.params, f.tMs)
Painted(f) == DrawFrameOps(f.params, f.tMs)

\* A catch block that reports the error and leaves the recording flag as
\* the try block set it.
CatchSetsRecording_Missing(flag) == flag

\* catch: setRecording(false), the last write to the flag in the handler.
CatchSetsRecording(flag) == FALSE

----------------------------------------------------------------------------
\* The state after construction: params as settings, colour as the colour
\* the helpers are applied to, no session yet.
InitState(params, colour) ==
    /\ settings = params
    /\ recording = FALSE
    /\ blobUrl = NoBlob
    /\ error = NoError
    /\ progressMs = 0
    /\ recorderRef = 0
    /\ chunksRef = << >>
    /\ rafRef = NoHandle
    /\ startTimeRef = 0
    /\ now = 0
    /\ rafQueue = {}
    /\ mr = [s \in Sessions |-> [phase |-> "none", emitted |-> << >>]]
    /\ closure = [s \in Sessions |-> [totalMs |-> 0, settings |-> Defaults]]
    /\ frame = NoFrame
    /\ canvas = [width |-> params.width]
    /\ swatch = colour

\* The component after its first render, with params as settings.
InitWith(params) == InitState(params, NoSwatch)

\* The component after its first render, with DEFAULTS as settings.
Init == InitWith(Defaults)

\* The body of stopRecording, run on the scheduler queue as it stands when
\* the function is entered.
StopEffects(queue) ==
    /\ rafQueue' = StopCancels(queue, rafRef)
    /\ rafRef' = NoHandle
    /\ mr' = IF StopSignalsEncoder(recorderRef, mr)
             THEN [mr EXCEPT ![recorderRef].phase = "stopping"]
             ELSE mr
    /\ recording' = FALSE

StopRecording ==
    /\ StopEffects(rafQueue)
    /\ UNCHANGED <<settings, blobUrl, error, progressMs, recorderRef,
                   chunksRef, startTimeRef, now, closure,
                   frame, canvas, swatch>>

StartRecording(outcome) ==
    \/ /\ outcome \in {"captureStream", "isTypeSupported"}
       /\ error' = NoError
       /\ blobUrl' = NoBlob
       /\ mr' = Forget(mr, 0)
       /\ UNCHANGED <<settings, recording, progressMs, recorderRef, chunksRef,
                      rafRef, startTimeRef, now, rafQueue, closure, frame, canvas, swatch>>
    \/ /\ outcome = "constructor"
       /\ error' = outcome
       /\ blobUrl' = NoBlob
       /\ recording' = CatchSetsRecording(recording)
       /\ mr' = Forget(mr, 0)
       /\ UNCHANGED <<settings, progressMs, recorderRef, chunksRef, rafRef,
                      startTimeRef, now, rafQueue, closure, frame, canvas, swatch>>
    \/ /\ outcome \in {"start", "ok"}
       /\ NewSess <= MaxSessions
       /\ LET s == NewSess IN
          /\ blobUrl' = NoBlob
          /\ recorderRef' = s
          /\ chunksRef' = << >>
          /\ closure' = [closure EXCEPT
                ![s] = [totalMs |-> settings.durationSeconds * MsPerSecond,
                        settings |-> settings]]
          /\ startTimeRef' = now
          /\ progressMs' = 0
          /\ frame' = NoFrame
          /\ IF outcome = "start"
             THEN /\ mr' = Forget([mr EXCEPT ![s].phase = "inactive"], 0)
                  /\ error' = outcome
                  /\ recording' = CatchSetsRecording(TRUE)
                  /\ UNCHANGED <<rafRef, rafQueue>>
             ELSE /\ mr' = Forget([mr EXCEPT ![s].phase = "recording"], 0)
                  /\ error' = NoError
                  /\ recording' = TRUE
                  /\ rafRef' = RequestAnimationFrame(s)
                  /\ rafQueue' = rafQueue \cup {RequestAnimationFrame(s)}
       /\ UNCHANGED <<settings, now, canvas, swatch>>

\* One run of the tick that session cb.sess scheduled; the scheduler runs a
\* callback at a display refresh after the one it was requested in.
Tick(cb, ctxOk) ==
    /\ cb \in rafQueue
    /\ cb.at < now
    /\ LET tMs == now - startTimeRef
           rest == rafQueue \ {cb}
       IN /\ progressMs' = tMs
          /\ IF ~ctxOk
             THEN /\ rafQueue' = rest
                  /\ UNCHANGED <<frame, rafRef, mr, recording>>
             ELSE /\ frame' = DrawFrame(cb.sess, closure[cb.sess].settings,
                                        canvas, tMs)
                  /\ IF TickSchedulesNext(tMs, closure[cb.sess].totalMs)
                     THEN /\ rafRef' = RequestAnimationFrame(cb.sess)
                          /\ rafQueue' = rest \cup {RequestAnimationFrame(cb.sess)}
                          /\ UNCHANGED <<mr, recording>>
                     ELSE StopEffects(rest)
    /\ UNCHANGED <<settings, blobUrl, error, recorderRef, chunksRef,
                   startTimeRef, now, closure, canvas, swatch>>

\* The encoder of session s delivers a timeslice fragment.
DataAvailable(s, size) ==
    /\ mr[s].phase = "recording"
    /\ Len(mr[s].emitted) < MaxFrags
    /\ LET e == Fragment(s, size) IN
       /\ mr' = [mr EXCEPT ![s].emitted = Emit(@, e)]
       /\ chunksRef' = OnDataAvailable(chunksRef, e)
    /\ UNCHANGED <<settings, recording, blobUrl, error, progressMs,
                   recorderRef, rafRef, startTimeRef, now, rafQueue,
                   closure, frame, canvas, swatch>>

\* The task a MediaRecorder runs when it ends: the final dataavailable
\* event, then the stop event.
Finalize(s, size, phase) ==
    LET e == Fragment(s, size)
        chunks == OnDataAvailable(chunksRef, e)
    IN /\ mr' = Forget([mr EXCEPT ![s] = [phase |-> phase,
                                          emitted |-> Emit(mr[s].emitted, e)]], s)
       /\ chunksRef' = chunks
       /\ blobUrl' = OnStopUrl(s, chunks)
       /\ UNCHANGED <<settings, recording, error, progressMs, recorderRef,
                      rafRef, startTimeRef, now, rafQueue, closure,
                      frame, canvas, swatch>>

\* The task queued by mr.stop().
MrStopTask(s, size) ==
    /\ mr[s].phase = "stopping"
    /\ Finalize(s, size, "stopped")

\* The encoder of session s aborts while recording: the recorder fires
\* error (no handler is installed), dataavailable and stop.
MrError(s, size) ==
    /\ mr[s].phase = "recording"
    /\ Finalize(s, size, "aborted")

\* The next display refresh begins.  The scheduler runs every callback
\* requested before a refresh during that refresh.  Only a tick reads the
\* clock against an earlier reading, so the refreshes that pass while no
\* callback is pending are not counted.
Advance ==
    /\ now + FrameMs <= MaxFrames * FrameMs
    /\ rafQueue # {}
    /\ \A cb \in rafQueue : cb.at = now
    /\ now' = now + FrameMs
    /\ UNCHANGED <<settings, recording, blobUrl, error, progressMs,
                   recorderRef, chunksRef, rafRef, startTimeRef, rafQueue,
                   mr, closure, frame, canvas, swatch>>

\* drawFrame called with an elapsed time, before any session.
CallDrawFrame(tMs) ==
    /\ NewSess = 1
    /\ frame' = DrawFrame(0, settings, canvas, tMs)
    /\ UNCHANGED <<settings, recording, blobUrl, error, progressMs,
                   recorderRef, chunksRef, rafRef, startTimeRef, now,
                   rafQueue, mr, closure, canvas, swatch>>

\* hexToRgb applied to a colour string, and rgbToHex to its three channels.
ConvertColor ==
    /\ swatch.hex # << >>
    /\ "rgb" \notin DOMAIN swatch
    /\ LET rgb == HexToRgb(swatch.hex)
       IN swatch' = [hex |-> swatch.hex, rgb |-> rgb,
                     back |-> RgbToHex(rgb.r, rgb.g, rgb.b)]
    /\ UNCHANGED <<settings, recording, blobUrl, error, progressMs,
                   recorderRef, chunksRef, rafRef, startTimeRef, now,
                   rafQueue, mr, closure, frame, canvas>>

\* useEffect on [settings.width, settings.height]: after a render in which
\* the width changed, the canvas is resized to it.
ResizeEffect(c, s) == [c EXCEPT !.width = s.width]

\* An input of the form changes: setSettings(s => ({ ...s, [field]: value })),
\* the component renders again and its effects run.
EditSettings(field, value) ==
    /\ value # settings[field]
    /\ settings' = [settings EXCEPT ![field] = value]
    /\ canvas' = ResizeEffect(canvas, settings')
    /\ UNCHANGED <<recording, blobUrl, error, progressMs, recorderRef,
                   chunksRef, rafRef, startTimeRef, now, rafQueue,
                   mr, closure, frame, swatch>>

----------------------------------------------------------------------------
\* The component as its buttons drive it: "Generate video" is rendered
\* while recording is false, "Stop" while it is true.
\* A "Generate video" button that is rendered whatever the recording flag.
ClickGenerate_Unguarded == \E o \in Outcomes : StartRecording(o)

ClickGenerate == ~recording /\ \E o \in Outcomes : StartRecording(o)
ClickStop == recording /\ StopRecording
AnimationFrame == \E cb \in rafQueue, ctxOk \in BOOLEAN : Tick(cb, ctxOk)
EncoderData == \E s \in Sessions, size \in FragSizes : DataAvailable(s, size)
EncoderStopped == \E s \in Sessions, size \in FragSizes : MrStopTask(s, size)
EncoderError == \E s \in Sessions, size \in FragSizes : MrError(s, size)
ChangeDuration == \E d \in Durations : EditSettings("durationSeconds", d)
ChangeWidth == \E w \in Widths : EditSettings("width", w)

Environment ==
    \/ AnimationFrame
    \/ EncoderData
    \/ EncoderStopped
    \/ EncoderError
    \/ Advance

Next == ClickGenerate \/ ClickStop \/ Environment

Spec == Init /\ [][Next]_vars

\* The encoder's queued stop task is eventually run.
EncoderFairness == \A s \in Sessions : WF_vars(\E size \in FragSizes : MrStopTask(s, size))

FairSpec == Spec /\ EncoderFairness

\* The component with its duration and width inputs in use.
SpecSettings == Init /\ [][Next \/ ChangeDuration \/ ChangeWidth]_vars

\* The renderer and the render loop on every parameter value: drawFrame
\* applied to sampled elapsed times, and the sessions of the component
\* without the fragments its encoders deliver, which no tick reads.
InitDraw == \E params \in ParamSets : InitWith(params)
Render == \E tMs \in ElapsedSamples : CallDrawFrame(tMs)
NextDraw ==
    \/ Render
    \/ ClickGenerate
    \/ ClickStop
    \/ AnimationFrame
    \/ EncoderStopped
    \/ Advance
SpecDraw == InitDraw /\ [][NextDraw]_vars

\* The colour helpers on every sampled colour string.
InitColor == \E hex \in ColorSamples : InitState(Defaults, [hex |-> hex])
SpecColor == InitColor /\ [][ConvertColor]_vars

\* The two handlers as an interface: called in any state.
CallStart == \E o \in Outcomes : StartRecording(o)
CallStop == StopRecording

NextAPI == CallStart \/ CallStop \/ Environment

SpecAPI == Init /\ [][NextAPI]_vars

\* The component as its buttons drive it, with stopRecording also called
\* while the Stop button is not shown.
SpecStop == Init /\ [][Next \/ CallStop]_vars

----------------------------------------------------------------------------
\* Vocabulary of the properties.

\* The encoder of session s is recording: the session is Running.
Running(s) == mr[s].phase = "recording"

\* mr.stop() was called on the encoder of session s.
ToldToStop(s) == mr[s].phase \in {"stopping", "stopped"}

\* A step in which the tick of some session runs to its end without a
\* drawing context, or with one.
TickRuns(cb) == Tick(cb, TRUE) \/ Tick(cb, FALSE)

----------------------------------------------------------------------------
\* C1: the artifact built in a session's finalize callback is the
\* concatenation, in emission order, of the non-empty fragments that
\* session's encoder emitted, whatever start() and stop() calls and
\* callbacks interleave.
C1_ArtifactIsConcatenation ==
    blobUrl # NoBlob => blobUrl.parts = mr[blobUrl.owner].emitted

C3_TickSchedulesOrStops ==
    [][\A cb \in rafQueue :
          TickRuns(cb) =>
              \/ RequestAnimationFrame(cb.sess) \in rafQueue'
              \/ (~recording' /\ rafRef' = NoHandle)]_vars

\* C4: startRecording() called while a session is Running changes neither
\* the encoder handle, the chunk buffer, the start timestamp, the pending
\* tick, the artifact or the error, and creates no encoder and no tick.
C4_StartWhileRunningRejected ==
    [][((\E s \in Sessions : Running(s)) /\ recording /\ CallStart) =>
          /\ UNCHANGED <<recorderRef, chunksRef, startTimeRef, rafRef,
                         rafQueue, blobUrl, error>>
          /\ \A s \in Sessions : mr'[s].phase = mr[s].phase]_vars

\* C5: stopRecording() called while no session is Running signals no
\* encoder and changes neither the chunk buffer nor the artifact, and an
\* encoder that has finished (or never started) never finalizes again.
C5_StopWhenIdleIsNoOp ==
    /\ [][((\A s \in Sessions : ~Running(s)) /\ StopRecording) =>
             UNCHANGED <<chunksRef, blobUrl, mr>>]_vars
    /\ [][\A s \in Sessions :
             mr[s].phase \in Finished => mr'[s].phase = mr[s].phase]_vars

\* stopRecording() ran on a session whose encoder had already ended by
\* itself: the flag is cleared and the artifact is still the one shown.
C5_Witness ==
    \E s \in Sessions :
        /\ mr[s].phase = "aborted"
        /\ recorderRef = s
        /\ blobUrl.owner = s
        /\ ~recording

\* C6: once stopRecording() has told a session's encoder to stop, no tick
\* of that session is pending, and no tick of it paints a frame.
C6_NoFrameAfterStop ==
    /\ [](\A s \in Sessions : ToldToStop(s) =>
             \A cb \in rafQueue : cb.sess # s)
    /\ [][\A cb \in rafQueue : Tick(cb, TRUE) => ~ToldToStop(cb.sess)]_vars

\* The Stop button ended a session between two of its ticks: a frame of it
\* was painted before its duration had passed and none is pending.
C6_Witness ==
    \E s \in Sessions :
        /\ mr[s].phase = "stopping"
        /\ frame.sess = s
        /\ frame.tMs < closure[s].totalMs
        /\ rafQueue = {}

\* C7: when a platform call of startRecording() throws, the error is
\* captured, the recording flag is false, no tick is scheduled and no
\* encoder starts recording.
C7_SetupFailureCaptured ==
    [][\A o \in Outcomes \ {"ok"} :
          StartRecording(o) =>
              /\ error' # NoError
              /\ ~recording'
              /\ rafQueue' = rafQueue
              /\ \A s \in Sessions : Running(s)' => Running(s)]_vars

\* C8: a session whose encoder aborted is Failed: its artifact is not
\* exposed, and while it is the current session the error is set and the
\* recording flag is false.
C8_AbortedSessionFailed ==
    \A s \in Sessions :
        mr[s].phase = "aborted" =>
            /\ blobUrl.owner # s
            /\ (recorderRef = s => (error # NoError /\ ~recording))

\* C9: no artifact is exposed while a session is Running, and an exposed
\* artifact belongs to the most recently started session.
C9_ArtifactOnlyWhenCompleted ==
    /\ (\E s \in Sessions : Running(s)) => blobUrl = NoBlob
    /\ blobUrl # NoBlob => blobUrl.owner = recorderRef

\* C10: the chunk buffer holds only fragments of the session that owns it.
C10_BufferOwned ==
    \A i \in 1..Len(chunksRef) : chunksRef[i].sess = recorderRef

\* The characters of the lines written by a text step, the line breaks
\* between them counted.
RECURSIVE CharsOf(_)
CharsOf(lines) ==
    IF Len(lines) = 0 THEN 0
    ELSE IF Len(lines) = 1 THEN Len(lines[1])
    ELSE Len(lines[1]) + 1 + CharsOf(Tail(lines))

\* The text step of a painted frame, and the characters it wrote.
TextStep(f) == Painted(f)[WaveCount + 3]
Revealed(f) == CharsOf(TextStep(f).arg)

\* f is a frame painted by the typewriter variant.
Typewritten(f) == f # NoFrame /\ f.params.animation = "typewriter"

\* C11: with startRecording() reachable only while the recording flag is
\* false and stopRecording() only while it is true, at most one encoder is
\* recording and at most one tick is pending in every reachable state.
C11_SingleRunning ==
    /\ Cardinality({s \in Sessions : Running(s)}) <= 1
    /\ Cardinality(rafQueue) <= 1

\* A second session is Running, its tick pending, while the encoder of the
\* session stopped before it has not yet delivered its stop event.
C11_Witness ==
    \E s, t \in Sessions :
        /\ mr[s].phase = "stopping"
        /\ Running(t)
        /\ recording
        /\ \E cb \in rafQueue : cb.sess = t

\* C12: every tick of a session paints with, and compares the elapsed time
\* against, the parameter values in force when startRecording() was called:
\* the frame is painted from those values on a surface of their size, and
\* the loop goes on exactly while the elapsed time is below their duration.
C12_ParametersSnapshotted ==
    /\ [](frame # NoFrame =>
             /\ frame.params = closure[frame.sess].settings
             /\ frame.surface.width = closure[frame.sess].settings.width)
    /\ [][\A cb \in rafQueue :
             Tick(cb, TRUE) =>
                 (RequestAnimationFrame(cb.sess) \in rafQueue'
                    <=> now - startTimeRef
                          < closure[cb.sess].settings.durationSeconds
                              * MsPerSecond)]_vars

\* C13: in a session that runs to its natural end (its encoder recording
\* until its last tick), a tick that paints an elapsed time below
\* durationSeconds * 1000 is followed by another tick, and a tick that paints
\* an elapsed time of durationSeconds * 1000 or more is the last one: its
\* elapsed time is below durationSeconds * 1000 plus one refresh interval,
\* it tells the encoder to stop and leaves no tick pending.
C13_DurationWithinOneRefresh ==
    [][\A cb \in rafQueue :
          (Tick(cb, TRUE) /\ Running(cb.sess)) =>
              LET tMs == now - startTimeRef
                  totalMs == closure[cb.sess].settings.durationSeconds
                                * MsPerSecond
              IN IF tMs < totalMs
                 THEN /\ RequestAnimationFrame(cb.sess) \in rafQueue'
                      /\ Running(cb.sess)'
                 ELSE /\ tMs < totalMs + FrameMs
                      /\ ToldToStop(cb.sess)'
                      /\ \A next \in rafQueue' : next.sess # cb.sess]_vars

\* A session has ended by its duration: its last frame was painted at an
\* elapsed time of at least the duration, after an earlier tick, and its
\* encoder has been told to stop.
C13_Witness ==
    \E s \in Sessions :
        /\ ToldToStop(s)
        /\ frame.sess = s
        /\ frame.tMs >= closure[s].totalMs
        /\ frame.tMs > FrameMs
        /\ ~recording

\* C14: a failed startRecording() leaves the recording flag false, so that
\* start is enabled again, and a startRecording() whose setup succeeds then
\* clears the error and the artifact, starts from an empty buffer and a
\* fresh start time, sets the flag, has its encoder recording and has its
\* first tick, and no other, pending.
C14_RetryAfterFailedStart ==
    /\ [][\A o \in Outcomes \ {"ok"} : StartRecording(o) => ~recording']_vars
    /\ [][(~recording /\ StartRecording("ok")) =>
             /\ error' = NoError
             /\ blobUrl' = NoBlob
             /\ recording'
             /\ recorderRef' # recorderRef
             /\ mr'[recorderRef'].phase = "recording"
             /\ chunksRef' = << >>
             /\ startTimeRef' = now
             /\ progressMs' = 0
             /\ rafQueue' = {rafRef'}
             /\ rafRef' = RequestAnimationFrame(recorderRef')]_vars

\* A start whose mr.start() threw was followed by a start that succeeded.
C14_Witness ==
    \E s, t \in Sessions :
        /\ mr[s].phase = "inactive"
        /\ s < t
        /\ Running(t)
        /\ recorderRef = t
        /\ error = NoError
        /\ recording
        /\ rafQueue = {rafRef}
        /\ rafRef.sess = t

\* C15: every call of drawFrame, whatever the animation variant and the
\* elapsed time, paints in order: the clear, the gradient background, three
\* waves, the text block, the track of the progress bar and its filled part,
\* of width floor(progress * trackWidth).
C15_FullPaintSequence ==
    frame # NoFrame =>
        LET ops == Painted(frame)
            trackWidth == frame.params.width - BarMargin * 2
        IN /\ Len(ops) = WaveCount + 5
           /\ ops[1].op = "clearRect"
           /\ ops[2].op = "background"
           /\ \A i \in 1..WaveCount : ops[2 + i].op = "wave"
           /\ ops[WaveCount + 3].op = "text"
           /\ ops[WaveCount + 4] = [op |-> "track", arg |-> trackWidth]
           /\ ops[WaveCount + 5].op = "fill"
           /\ ops[WaveCount + 5].arg * ProgressOf(frame).den
                 <= ProgressOf(frame).num * trackWidth
           /\ ProgressOf(frame).num * trackWidth
                 < (ops[WaveCount + 5].arg + 1) * ProgressOf(frame).den

\* C16: with the typewriter variant the text painted is a prefix of the
\* text, never longer than the text: empty at progress 0, the whole text at
\* progress 1 (where the raw count exceeds the length), and of two frames of
\* the same parameters the one of no smaller progress shows no fewer
\* characters; so it is across the ticks of a session.
C16_TypewriterReveal ==
    /\ [](Typewritten(frame) =>
             LET text == Chars(frame.params.text)
                 n == Revealed(frame)
             IN /\ n <= Len(text)
                /\ TextStep(frame).arg = SplitLines(SubSeq(text, 1, n))
                /\ RatEq(ProgressOf(frame), Zero) => n = 0
                /\ RatEq(ProgressOf(frame), One) => n = Len(text))
    /\ [][(/\ Typewritten(frame)
            /\ Typewritten(frame')
            /\ frame'.params = frame.params
            /\ RatLeq(ProgressOf(frame), ProgressOf(frame')))
              => Revealed(frame) <= Revealed(frame')]_vars
    /\ [][\A cb \in rafQueue :
             (Tick(cb, TRUE) /\ Typewritten(frame) /\ frame.sess = cb.sess)
                 => (Typewritten(frame')
                       /\ Revealed(frame) <= Revealed(frame'))]_vars

\* A tick of a session painted part of the text, up to its second line.
C16_Witness ==
    /\ Typewritten(frame)
    /\ frame.sess # 0
    /\ Len(TextStep(frame).arg) > 1
    /\ Revealed(frame) < Len(Chars(frame.params.text))

\* C17: for fixed parameters the progress drawFrame computes lies in
\* [0, 1], is 1 at every elapsed time of durationSeconds * 1000 or more and
\* does not decrease when the elapsed time grows; the progress painted by
\* successive ticks of a session never decreases, and the last tick of a
\* session that ends by its duration paints progress 1.
C17_ProgressClampedMonotone ==
    /\ [](frame # NoFrame =>
             /\ RatLeq(Zero, ProgressOf(frame))
             /\ RatLeq(ProgressOf(frame), One)
             /\ (frame.tMs >= frame.params.durationSeconds * MsPerSecond)
                   => RatEq(ProgressOf(frame), One))
    /\ [][(/\ frame # NoFrame
            /\ frame' # NoFrame
            /\ frame'.params = frame.params
            /\ frame.tMs <= frame'.tMs)
              => RatLeq(ProgressOf(frame), ProgressOf(frame'))]_vars
    /\ [][\A cb \in rafQueue :
             (Tick(cb, TRUE) /\ frame.sess = cb.sess)
                 => RatLeq(ProgressOf(frame), ProgressOf(frame'))]_vars
    /\ [][\A cb \in rafQueue :
             (Tick(cb, TRUE) /\ ~recording')
                 => RatEq(ProgressOf(frame'), One)]_vars

\* A session has ended by its duration, on a tick past the duration that
\* followed a tick before it.
C17_Witness ==
    \E s \in Sessions :
        /\ ToldToStop(s)
        /\ frame.sess = s
        /\ frame.tMs > FrameMs
        /\ frame.tMs >= frame.params.durationSeconds * MsPerSecond
        /\ RatEq(ProgressOf(frame), One)
        /\ ~recording

\* The colour string of swatch has been converted.
Converted == "rgb" \in DOMAIN swatch

\* A valid colour: "#" and six hexadecimal digits of either case.
ValidColor(hex) ==
    /\ Len(hex) = 7
    /\ hex[1] = "#"
    /\ \A i \in 2..7 : IsHexDigit(hex[i])

\* A character in lower case.
LowerCase(c) ==
    IF \E v \in 1..16 : c = UpperDigits[v]
    THEN LowerDigits[CHOOSE v \in 1..16 : c = UpperDigits[v]]
    ELSE c

\* C18: for every valid colour h ("#" and six hexadecimal digits of either
\* case), each channel of hexToRgb(h) is an integer of 0..255 and rgbToHex of
\* the three channels is h in lower case; whatever hexToRgb returned,
\* rgbToHex writes "#" and two lower-case hexadecimal digits per channel.
C18_ColorRoundTrip ==
    Converted =>
        /\ Len(swatch.back) = 7
        /\ swatch.back[1] = "#"
        /\ \A i \in 2..7 : \E v \in 1..16 : swatch.back[i] = LowerDigits[v]
        /\ ValidColor(swatch.hex) =>
              /\ swatch.rgb.r \in 0..255
              /\ swatch.rgb.g \in 0..255
              /\ swatch.rgb.b \in 0..255
              /\ swatch.back = [i \in 1..7 |-> LowerCase(swatch.hex[i])]

\* A valid colour with an upper-case digit and a channel below 16, whose
\* digit is padded, has been converted.
C18_Witness ==
    /\ Converted
    /\ ValidColor(swatch.hex)
    /\ swatch.hex # swatch.back
    /\ swatch.rgb.r < 16
    /\ swatch.rgb.g > 16

\* C19: the Running state and the render loop end together.  While the
\* recording flag is true and a session's encoder is recording, a tick of
\* that session is pending; a tick that leaves no tick of its session
\* pending has told the encoder to stop and cleared the flag; and while the
\* flag is false no tick is pending and no encoder is recording.
C19_LoopAndRunningEndTogether ==
    /\ [](\A s \in Sessions :
             (recording /\ Running(s)) => \E cb \in rafQueue : cb.sess = s)
    /\ [][\A cb \in rafQueue :
             (TickRuns(cb) /\ \A next \in rafQueue' : next.sess # cb.sess) =>
                 (ToldToStop(cb.sess)' /\ ~recording')]_vars
    /\ [](~recording =>
             (rafQueue = {} /\ \A s \in Sessions : ~Running(s)))

====
